---- MODULE Spec2Model ----
(***************************************************************************)
(* butler: a domain-restricted web crawler (src/src/butler/main.go).       *)
(*                                                                         *)
(* The model follows the Go source statement by statement.  The main       *)
(* goroutine runs Load and then Run; Run starts pool_size+1 worker         *)
(* goroutines.  Crawler.enqueue takes no lock, so a worker's call is a     *)
(* sequence of separate steps (map read, map write, WaitGroup.Add,         *)
(* queue.Enqueue) that interleave with the other workers' steps.           *)
(*                                                                         *)
(* Go strings are sequences of one-character strings, so that HasPrefix,   *)
(* slicing, concatenation, url.Parse and URL.String are computed and not   *)
(* assumed.                                                                *)
(***************************************************************************)
EXTENDS Integers, Sequences, FiniteSets, Bags, TLC

(***************************************************************************)
(* Bounds of the model.                                                    *)
(***************************************************************************)
\* the argument of Run: pool_size (main passes 2; any value is an input)
PoolSize == 1

(***************************************************************************)
(* String literals of the source.                                          *)
(***************************************************************************)
Www4 == <<"w", "w", "w", ".">>
Http == <<"h", "t", "t", "p">>
Https == <<"h", "t", "t", "p", "s">>
HttpColonSlashSlash == <<"h", "t", "t", "p", ":", "/", "/">>
Slash == <<"/">>
Hash == <<"#">>
TextHtml == <<"t", "e", "x", "t", "/", "h", "t", "m", "l">>
TextPlain == <<"t", "e", "x", "t", "/", "p", "l", "a", "i", "n">>
ExternalDomain ==
    <<"e", "x", "t", "e", "r", "n", "a", "l", " ", "d", "o", "m", "a", "i", "n">>
WrongScheme ==
    <<"w", "r", "o", "n", "g", " ", "s", "c", "h", "e", "m", "e", ":", " ">>
ContentTypePrefix ==
    <<"c", "o", "n", "t", "e", "n", "t", "-", "t", "y", "p", "e", ":", " ">>
\* the error value http.Get returns on a transport failure
TransportErr == <<"e", "r", "r">>
\* a nil reason
NilReason == <<>>

(***************************************************************************)
(* strings package                                                         *)
(***************************************************************************)
HasPrefix(s, p) ==
    /\ Len(s) >= Len(p)
    /\ SubSeq(s, 1, Len(p)) = p

\* s[n:]
SliceFrom(s, n) == SubSeq(s, n + 1, Len(s))

\* strings.Index for a single character, 1-based; 0 when absent
IndexOf(s, c) ==
    IF \E i \in 1..Len(s) : s[i] = c
    THEN CHOOSE i \in 1..Len(s) : s[i] = c /\ \A j \in 1..(i - 1) : s[j] # c
    ELSE 0

\* strings.LastIndex for a single character, 1-based; 0 when absent
LastIndexOf(s, c) ==
    IF \E i \in 1..Len(s) : s[i] = c
    THEN CHOOSE i \in 1..Len(s) : s[i] = c /\ \A j \in (i + 1)..Len(s) : s[j] # c
    ELSE 0

(***************************************************************************)
(* net/url: a URL is its Scheme, Host, Path and Fragment (the links of the *)
(* model carry no user info, query or opaque part).                        *)
(***************************************************************************)
URL(s, h, p, f) == [scheme |-> s, host |-> h, path |-> p, fragment |-> f]

NoURL == URL(<<>>, <<>>, <<>>, <<>>)

\* URL.String
String(u) ==
    LET auth == (u.scheme # <<>> \/ u.host # <<>>) /\ (u.host # <<>> \/ u.path # <<>>)
    IN  (IF u.scheme # <<>> THEN u.scheme \o <<":">> ELSE <<>>)
        \o (IF auth THEN <<"/", "/">> ELSE <<>>)
        \o (IF u.scheme # <<>> \/ u.host # <<>> THEN u.host ELSE <<>>)
        \o (IF u.path # <<>> /\ u.path[1] # "/" /\ u.host # <<>> THEN Slash ELSE <<>>)
        \o u.path
        \o (IF u.fragment # <<>> THEN Hash \o u.fragment ELSE <<>>)

\* the scheme characters url.Parse accepts after the first one
SchemeChar(c) == c \notin {":", "/", "#", " "}

\* url.Parse: [ok, url].  The fragment is cut at the first "#"; a scheme is
\* the text before the first ":" when it holds scheme characters only; a
\* leading ":" is the error "missing protocol scheme"; after "//" the host
\* runs to the next "/".
Parse(raw) ==
    LET h      == IndexOf(raw, "#")
        frag   == IF h = 0 THEN <<>> ELSE SliceFrom(raw, h)
        rest   == IF h = 0 THEN raw ELSE SubSeq(raw, 1, h - 1)
        c      == IndexOf(rest, ":")
        hasSch == /\ c > 1
                  /\ rest[1] # "."
                  /\ \A j \in 1..(c - 1) : SchemeChar(rest[j])
        bad    == c = 1
        scheme == IF hasSch THEN SubSeq(rest, 1, c - 1) ELSE <<>>
        after  == IF hasSch THEN SliceFrom(rest, c) ELSE rest
        hasAu  == HasPrefix(after, <<"/", "/">>)
        au     == IF hasAu THEN SliceFrom(after, 2) ELSE <<>>
        s      == IndexOf(au, "/")
        host   == IF ~hasAu THEN <<>> ELSE IF s = 0 THEN au ELSE SubSeq(au, 1, s - 1)
        path   == IF ~hasAu THEN after ELSE IF s = 0 THEN <<>> ELSE SliceFrom(au, s - 1)
    IN  IF bad THEN [ok |-> FALSE, url |-> NoURL]
        ELSE [ok |-> TRUE, url |-> URL(scheme, host, path, frag)]

\* resolvePath of net/url for references without dot segments
ResolvePath(basePath, refPath) ==
    LET full == IF refPath = <<>> THEN basePath
                ELSE IF refPath[1] = "/" THEN refPath
                ELSE SubSeq(basePath, 1, LastIndexOf(basePath, "/")) \o refPath
    IN  IF full = <<>> THEN <<>>
        ELSE IF full[1] = "/" THEN full ELSE Slash \o full

\* URL.ResolveReference
ResolveReference(base, ref) ==
    IF ref.scheme # <<>>
    THEN URL(ref.scheme, ref.host, ResolvePath(ref.path, <<>>), ref.fragment)
    ELSE IF ref.host # <<>>
    THEN URL(base.scheme, ref.host, ResolvePath(ref.path, <<>>), ref.fragment)
    ELSE URL(base.scheme, base.host, ResolvePath(base.path, ref.path),
             IF ref.path = <<>> /\ ref.fragment = <<>> THEN base.fragment
             ELSE ref.fragment)


(***************************************************************************)
(* Inputs: the config file Load reads and the web the crawler fetches.     *)
(***************************************************************************)
HostA == <<"a">>
HostB == <<"b">>
HostWwwA == Www4 \o HostA
HostWwwWwwA == Www4 \o Www4 \o HostA

\* Config{Www, Domains}
Cfg(w, ds) == [www |-> w, domains |-> ds]

TwoSites == Cfg(FALSE, <<HostA, HostB>>)

Configs ==
    { Cfg(FALSE, <<HostA>>),
      TwoSites,
      Cfg(TRUE, <<HostA, HostWwwA>>),
      Cfg(TRUE, <<HostWwwA>>),
      Cfg(FALSE, <<HostWwwWwwA>>),
      Cfg(FALSE, <<>>) }

\* what http.Get yields: a transport error, or a status, a Content-Type and a
\* body, the body given as the hrefs the pattern of line 236 finds in it,
\* HTML-unescaped (the hrefs of the model hold no character entity)
Response(st, ct, b) == [err |-> FALSE, status |-> st, ctype |-> ct, body |-> b]

Failure == [err |-> TRUE, status |-> 0, ctype |-> <<>>, body |-> <<>>]

NotFound == Response(404, TextHtml, <<>>)

PathRoot == Slash
PathX == <<"/", "x">>

HrefRelX == <<"x">>
HrefRelXFrag == <<"x", "#", "f">>
HrefFragOnly == <<"#", "t">>
HrefRoot == <<"/">>
HrefBad == <<":">>
HrefAbsAX == HttpColonSlashSlash \o <<"a", "/", "x">>
HrefAbsAXFrag == HttpColonSlashSlash \o <<"a", "/", "x", "#", "f">>
HrefAbsANoPath == HttpColonSlashSlash \o <<"a">>
HrefHttpsAX == Https \o <<":", "/", "/", "a", "/", "x">>
HrefExternal == HttpColonSlashSlash \o <<"c", "/">>

\* every allowed host serves the same site: path -> response
WebLinks ==
    (PathRoot :> Response(200, TextHtml, <<HrefAbsAX, HrefFragOnly, HrefRelXFrag, HrefHttpsAX>>))
    @@ (PathX :> Response(200, TextHtml, <<HrefBad, HrefAbsANoPath, HrefExternal>>))

WebRedirect ==
    (PathRoot :> Response(200, TextHtml, <<HrefAbsAXFrag, HrefRelX>>))
    @@ (PathX :> Response(301, TextHtml, <<HrefRoot>>))

WebPlain ==
    (PathRoot :> Response(200, TextHtml \o <<";">>, <<HrefRelX>>))
    @@ (PathX :> Response(200, TextPlain, <<HrefRoot>>))

WebDown == (PathRoot :> Failure)

Webs == {WebLinks, WebRedirect, WebPlain, WebDown}

\* the runs explored: every config on every web, the config of two domains
\* TwoSites on the three smaller webs
Scenarios == {s \in Configs \X Webs : s[1] # TwoSites \/ s[2] # WebLinks}

(***************************************************************************)
(* State                                                                   *)
(***************************************************************************)
VARIABLES
    config,     \* the parsed config file
    web,        \* the site behind every host
    www,        \* Crawler.www
    domains,    \* Crawler.domains: the hosts mapped to true
    known,      \* Crawler.known: the keys mapped to true
    queue,      \* Crawler.queue: a bag of task URLs
    waiter,     \* Crawler.waiter: the WaitGroup counter
    starts,     \* per reporter: calls of Start
    finishes,   \* per reporter: calls of Finish
    events,     \* per reporter: the bag of Success/Ignored/Error calls
    pc,         \* per goroutine: the statement it is at
    call,       \* per goroutine: the frame of its current or last enqueue call
    page,       \* per worker: the url of the task it dequeued
    resp,       \* per worker: the response of http.Get
    hrefs,      \* per worker: the matches of line 168 not yet looped over
    loadi,      \* Load: index of the next domain of config.Domains
    spawni,     \* Run: the loop variable i of line 127
    crashed,    \* the runtime stopped the process with a fatal error
    enqueued,   \* history: bag of the keys of all tasks pushed on the queue
    fetched,    \* history: bag of the keys of all http.Get calls
    work,       \* per worker: what it has done for the task it is processing
    lastRange   \* the reporters the last loop over c.reporters called, in order

vars == <<config, web, www, domains, known, queue, waiter, starts, finishes,
          events, pc, call, page, resp, hrefs, loadi, spawni, crashed,
          enqueued, fetched, work, lastRange>>

\* main registers four reporters (lines 248-251), in this order
Reporters == <<"SitemapReporter", "StdoutReporter", "ErrorReporter", "IgnoreReporter">>

Main == -1
Workers == 0..PoolSize
Threads == Workers \cup {Main}

\* the frame of an enqueue call: the link as passed (raw) and as normalized
\* (link), whether the key was found in the known map, and what the call has
\* done so far: its change of the WaitGroup counter, the tasks it pushed and
\* the events it reported
NoCall == [active |-> FALSE, raw |-> NoURL, link |-> NoURL, known |-> FALSE,
           adds |-> 0, tasks |-> EmptyBag, reports |-> EmptyBag]

\* what a worker has done for its task: the events it reported and the
\* calls of enqueue it made
NoWork == [reports |-> EmptyBag, calls |-> 0]

NoResp == [err |-> FALSE, status |-> 0, ctype |-> <<>>, body |-> <<>>, read |-> FALSE]

Init ==
    /\ \E s \in Scenarios : config = s[1] /\ web = s[2]
    /\ www = FALSE
    /\ domains = {}
    /\ known = {}
    /\ queue = EmptyBag
    /\ waiter = 0
    /\ starts = [r \in 1..Len(Reporters) |-> 0]
    /\ finishes = [r \in 1..Len(Reporters) |-> 0]
    /\ events = [r \in 1..Len(Reporters) |-> EmptyBag]
    /\ pc = [t \in Threads |-> IF t = Main THEN "load_cfg" ELSE "idle"]
    /\ call = [t \in Threads |-> NoCall]
    /\ page = [w \in Workers |-> NoURL]
    /\ resp = [w \in Workers |-> NoResp]
    /\ hrefs = [w \in Workers |-> <<>>]
    /\ loadi = 1
    /\ spawni = 0
    /\ crashed = FALSE
    /\ enqueued = EmptyBag
    /\ fetched = EmptyBag
    /\ work = [w \in Workers |-> NoWork]
    /\ lastRange = <<>>

(***************************************************************************)
(* Reporting                                                               *)
(***************************************************************************)
Event(k, u, st, reason) == [kind |-> k, url |-> String(u), status |-> st, reason |-> reason]

\* mutant: the loop stops before the last reporter
RECURSIVE RangeReporters_short(_, _, _)
RangeReporters_short(i, ev, log) ==
    IF i >= Len(Reporters) THEN log
    ELSE RangeReporters_short(i + 1, ev, [log EXCEPT ![i] = @ (+) SetToBag({ev})])

\* for _, reporter := range c.reporters { reporter.<call>(...) }
RECURSIVE RangeReporters(_, _, _)
RangeReporters(i, ev, log) ==
    IF i > Len(Reporters) THEN log
    ELSE RangeReporters(i + 1, ev, [log EXCEPT ![i] = @ (+) SetToBag({ev})])

\* the order in which a loop over c.reporters calls them
RECURSIVE RangeOrder(_, _)
RangeOrder(i, called) ==
    IF i > Len(Reporters) THEN called
    ELSE RangeOrder(i + 1, Append(called, Reporters[i]))

\* the reporters called by this step, when it reported an event
Ranged == IF events' # events THEN RangeOrder(1, <<>>) ELSE lastRange

\* the events this step delivered (as the first reporter received them)
Delivered == events'[1] (-) events[1]

\* the worker's record of its task after this step
Worked(t) ==
    IF t \in Workers
    THEN [work EXCEPT ![t].reports = @ (+) Delivered]
    ELSE work

\* mutant: only the 4xx and 5xx statuses are errors
status_is_error(r) == r.status >= 400

\* line 158: resp.StatusCode != 200
status_not_200(r) == r.status # 200

\* mutant: any text type is taken as HTML
is_text_any(r) == HasPrefix(r.ctype, <<"t", "e", "x", "t", "/">>)

\* line 163: strings.HasPrefix(resp.Header.Get("Content-Type"), "text/html")
is_text_html(r) == HasPrefix(r.ctype, TextHtml)

report_success(u, status) == RangeReporters(1, Event("success", u, status, NilReason), events)

\* mutant: the event is dropped
report_ignored_dropped(u, status, reason) == events

report_ignored(u, status, reason) == RangeReporters(1, Event("ignored", u, status, reason), events)

\* mutant: the event is dropped
report_error_dropped(u, status, reason) == events

report_error(u, status, reason) == RangeReporters(1, Event("error", u, status, reason), events)

(***************************************************************************)
(* Crawler                                                                 *)
(***************************************************************************)
normalize_host(host) ==
    IF HasPrefix(host, Www4)
    THEN IF www THEN host ELSE SliceFrom(host, 4)
    ELSE IF www THEN Www4 \o host ELSE host

\* mutant: the counter is left alone
waiter_Add_lost(delta) == waiter

\* c.waiter.Add(delta)
waiter_Add(delta) == waiter + delta

\* mutant: the counter is not decremented
waiter_Done_skipped == waiter

\* c.waiter.Done()
waiter_Done == waiter - 1

\* mutant: a prefix test instead of equality
scheme_has_http_prefix(link) == HasPrefix(link.scheme, Http)

\* line 101: link.Scheme == "http"
scheme_is_http(link) == link.scheme = Http

\* mutant: every host is allowed
domain_any(link) == TRUE

\* line 102: c.domains[link.Host]
domain_allowed(link) == link.host \in domains

\* line 95: _, present := c.known[link.String()]
known_present(link) == String(link) \in known

\* allow
allow(domain) == domains \cup {domain}

\* task.Less
Less(t, other) == Len(String(t)) < Len(String(other))

\* mutant: the fragment is kept
enqueue_link_with_fragment(link, hasBase, base) ==
    LET l1 == IF hasBase THEN ResolveReference(base, link) ELSE link
        l2 == IF l1.path = <<>> THEN [l1 EXCEPT !.path = Slash] ELSE l1
    IN  IF l2.host # <<>> THEN [l2 EXCEPT !.host = normalize_host(l2.host)] ELSE l2

\* enqueue, lines 80-93: the link as it is when the known map is read
enqueue_link(link, hasBase, base) ==
    LET l1 == IF hasBase
              THEN [ResolveReference(base, link) EXCEPT !.fragment = <<>>]
              ELSE link
        l2 == IF l1.path = <<>> THEN [l1 EXCEPT !.path = Slash] ELSE l1
        l3 == [l2 EXCEPT !.fragment = <<>>]
    IN  IF l3.host # <<>> THEN [l3 EXCEPT !.host = normalize_host(l3.host)] ELSE l3

\* the statement after a return of enqueue: Load's loop or process_url's loop
Ret(t) == IF t = Main THEN "load" ELSE "links"

\* the frame of a new call enqueue(link, base)
NewCall(link) == [NoCall EXCEPT !.active = TRUE, !.raw = link, !.link = link]


(***************************************************************************)
(* Crawler.enqueue, lines 79-117.  No lock is held: each access to shared  *)
(* state is a step of its own.                                             *)
(***************************************************************************)
\* lines 80-97: resolve and normalize the link, then read the known map
EnqCheck(t) ==
    /\ pc[t] = "enq_check"
    /\ LET base == IF t = Main THEN NoURL ELSE page[t]
           link == enqueue_link(call[t].link, t # Main, base)
       IN  IF known_present(link)
           THEN /\ call' = [call EXCEPT ![t].link = link, ![t].known = TRUE]
                /\ pc' = [pc EXCEPT ![t] = Ret(t)]
           ELSE /\ call' = [call EXCEPT ![t].link = link]
                /\ pc' = [pc EXCEPT ![t] = "enq_insert"]
    /\ UNCHANGED <<config, web, work, lastRange, www, domains, known, queue, waiter, starts, finishes,
                   events, page, resp, hrefs, loadi, spawni, crashed, enqueued, fetched>>

\* mutant: the host of an inserted key is allowed from then on
EnqInsert_allowing(t) ==
    /\ pc[t] = "enq_insert"
    /\ known' = known \cup {String(call[t].link)}
    /\ domains' = allow(call[t].link.host)
    /\ pc' = [pc EXCEPT ![t] = "enq_admit"]
    /\ UNCHANGED <<config, web, work, lastRange, www, queue, waiter, starts, finishes, events,
                   call, page, resp, hrefs, loadi, spawni, crashed, enqueued, fetched>>

\* line 99: c.known[link.String()] = true
EnqInsert(t) ==
    /\ pc[t] = "enq_insert"
    /\ known' = known \cup {String(call[t].link)}
    /\ pc' = [pc EXCEPT ![t] = "enq_admit"]
    /\ UNCHANGED <<config, web, work, lastRange, www, domains, queue, waiter, starts, finishes, events,
                   call, page, resp, hrefs, loadi, spawni, crashed, enqueued, fetched>>

\* lines 101-103 and 106-113: the policy; c.waiter.Add(1) when accepted
EnqAdmit(t) ==
    /\ pc[t] = "enq_admit"
    /\ LET link == call[t].link
       IN  IF scheme_is_http(link)
           THEN IF domain_allowed(link)
                THEN /\ waiter' = waiter_Add(1)
                     /\ pc' = [pc EXCEPT ![t] = "enq_push"]
                     /\ UNCHANGED events
                ELSE /\ events' = report_ignored(link, 0, ExternalDomain)
                     /\ pc' = [pc EXCEPT ![t] = Ret(t)]
                     /\ UNCHANGED waiter
           ELSE /\ events' = report_ignored(link, 0, WrongScheme \o link.scheme)
                /\ pc' = [pc EXCEPT ![t] = Ret(t)]
                /\ UNCHANGED waiter
    /\ call' = [call EXCEPT ![t].adds = @ + (waiter' - waiter),
                            ![t].reports = @ (+) (events'[1] (-) events[1])]
    /\ lastRange' = Ranged
    /\ work' = Worked(t)
    /\ UNCHANGED <<config, web, www, domains, known, queue, starts, finishes,
                   page, resp, hrefs, loadi, spawni, crashed, enqueued, fetched>>

\* lines 104-105: c.queue.Enqueue(&task{url: link}); return
EnqPush(t) ==
    /\ pc[t] = "enq_push"
    /\ queue' = queue (+) SetToBag({call[t].link})
    /\ enqueued' = enqueued (+) SetToBag({String(call[t].link)})
    /\ call' = [call EXCEPT ![t].tasks = @ (+) (queue' (-) queue)]
    /\ pc' = [pc EXCEPT ![t] = Ret(t)]
    /\ UNCHANGED <<config, web, work, lastRange, www, domains, known, waiter, starts, finishes, events,
                   page, resp, hrefs, loadi, spawni, crashed, fetched>>

\* Two goroutines are at unsynchronized accesses of c.known, one of them the
\* write of line 99.  Besides the two orders of the accesses, the Go runtime
\* may stop the process ("fatal error: concurrent map writes" or "concurrent
\* map read and map write").
MapFault ==
    /\ \E t1, t2 \in Workers :
          /\ t1 # t2
          /\ pc[t1] = "enq_insert"
          /\ pc[t2] \in {"enq_check", "enq_insert"}
    /\ crashed' = TRUE
    /\ pc' = [t \in Threads |-> "fatal"]
    /\ UNCHANGED <<config, web, work, lastRange, www, domains, known, queue, waiter, starts, finishes,
                   events, call, page, resp, hrefs, loadi, spawni, enqueued, fetched>>

(***************************************************************************)
(* Crawler.Load, lines 204-227 (called by main, line 253)                  *)
(***************************************************************************)
\* lines 208-214
LoadConfig ==
    /\ pc[Main] = "load_cfg"
    /\ www' = config.www
    /\ pc' = [pc EXCEPT ![Main] = "load"]
    /\ UNCHANGED <<config, web, work, lastRange, domains, known, queue, waiter, starts, finishes, events,
                   call, page, resp, hrefs, loadi, spawni, crashed, enqueued, fetched>>

\* lines 216-223: one iteration up to the call of enqueue; a parse error
\* returns it to main, which panics
LoadDomain ==
    /\ pc[Main] = "load"
    /\ loadi <= Len(config.domains)
    /\ LET domain == normalize_host(config.domains[loadi])
           u      == Parse(HttpColonSlashSlash \o domain \o Slash)
       IN  /\ domains' = allow(domain)
           /\ IF u.ok
              THEN /\ call' = [call EXCEPT ![Main] = NewCall(u.url)]
                   /\ pc' = [pc EXCEPT ![Main] = "enq_check"]
              ELSE /\ call' = [call EXCEPT ![Main] = NoCall]
                   /\ pc' = [pc EXCEPT ![Main] = "panic"]
    /\ loadi' = loadi + 1
    /\ UNCHANGED <<config, web, work, lastRange, www, known, queue, waiter, starts, finishes, events,
                   page, resp, hrefs, spawni, crashed, enqueued, fetched>>

\* line 226, then main calls c.Run (line 255)
LoadReturn ==
    /\ pc[Main] = "load"
    /\ loadi > Len(config.domains)
    /\ call' = [call EXCEPT ![Main] = NoCall]
    /\ pc' = [pc EXCEPT ![Main] = "run"]
    /\ UNCHANGED <<config, web, work, lastRange, www, domains, known, queue, waiter, starts, finishes,
                   events, page, resp, hrefs, loadi, spawni, crashed, enqueued, fetched>>

(***************************************************************************)
(* Crawler.Run, lines 119-142                                              *)
(***************************************************************************)
\* lines 120-125: reset the report directory, reporter.Start() for each
RunStart ==
    /\ pc[Main] = "run"
    /\ starts' = [r \in 1..Len(Reporters) |-> starts[r] + 1]
    /\ pc' = [pc EXCEPT ![Main] = "spawn"]
    /\ lastRange' = RangeOrder(1, <<>>)
    /\ UNCHANGED <<config, web, work, www, domains, known, queue, waiter, finishes, events,
                   call, page, resp, hrefs, loadi, spawni, crashed, enqueued, fetched>>

\* mutant: the loop starts pool_size workers
Spawn_exact ==
    /\ pc[Main] = "spawn"
    /\ IF spawni < PoolSize
       THEN /\ pc' = [pc EXCEPT ![spawni] = "dequeue"]
            /\ spawni' = spawni + 1
       ELSE /\ pc' = [pc EXCEPT ![Main] = "wait"]
            /\ UNCHANGED spawni
    /\ UNCHANGED <<config, web, work, lastRange, www, domains, known, queue, waiter, starts, finishes,
                   events, call, page, resp, hrefs, loadi, crashed, enqueued, fetched>>

\* lines 127-128: for i := 0; i <= pool_size; i++ { go func(){...}() }
Spawn ==
    /\ pc[Main] = "spawn"
    /\ IF spawni <= PoolSize
       THEN /\ pc' = [pc EXCEPT ![spawni] = "dequeue"]
            /\ spawni' = spawni + 1
       ELSE /\ pc' = [pc EXCEPT ![Main] = "wait"]
            /\ UNCHANGED spawni
    /\ UNCHANGED <<config, web, work, lastRange, www, domains, known, queue, waiter, starts, finishes,
                   events, call, page, resp, hrefs, loadi, crashed, enqueued, fetched>>

\* mutant: the wait does not block
Wait_nonblocking ==
    /\ pc[Main] = "wait"
    /\ pc' = [pc EXCEPT ![Main] = "finish"]
    /\ UNCHANGED <<config, web, work, lastRange, www, domains, known, queue, waiter, starts, finishes,
                   events, call, page, resp, hrefs, loadi, spawni, crashed, enqueued,
                   fetched>>

\* line 137: c.waiter.Wait() returns when the counter is zero
Wait ==
    /\ pc[Main] = "wait"
    /\ waiter = 0
    /\ pc' = [pc EXCEPT ![Main] = "finish"]
    /\ UNCHANGED <<config, web, work, lastRange, www, domains, known, queue, waiter, starts, finishes,
                   events, call, page, resp, hrefs, loadi, spawni, crashed, enqueued,
                   fetched>>

\* lines 139-141: reporter.Finish(c.report_dir) for each; Run returns
Finish ==
    /\ pc[Main] = "finish"
    /\ finishes' = [r \in 1..Len(Reporters) |-> finishes[r] + 1]
    /\ pc' = [pc EXCEPT ![Main] = "done"]
    /\ lastRange' = RangeOrder(1, <<>>)
    /\ UNCHANGED <<config, web, work, www, domains, known, queue, waiter, starts, events,
                   call, page, resp, hrefs, loadi, spawni, crashed, enqueued, fetched>>

(***************************************************************************)
(* The worker goroutine, lines 129-133, and process_url, lines 146-185     *)
(***************************************************************************)
\* http.Get(page.String())
Fetch(u) == IF u.path \in DOMAIN web THEN web[u.path] ELSE NotFound

\* mutant: Done is called as soon as the task is dequeued
Dequeue_done_early(w) ==
    /\ pc[w] = "dequeue"
    /\ \E u \in BagToSet(queue) :
          /\ \A v \in BagToSet(queue) : ~Less(v, u)
          /\ queue' = queue (-) SetToBag({u})
          /\ page' = [page EXCEPT ![w] = u]
    /\ waiter' = waiter_Done
    /\ pc' = [pc EXCEPT ![w] = "get"]
    /\ UNCHANGED <<config, web, work, lastRange, www, domains, known, starts, finishes, events,
                   call, resp, hrefs, loadi, spawni, crashed, enqueued, fetched>>

\* line 130: t := c.queue.Dequeue() blocks while the queue is empty and
\* yields a task no other task is Less than
Dequeue(w) ==
    /\ pc[w] = "dequeue"
    /\ \E u \in BagToSet(queue) :
          /\ \A v \in BagToSet(queue) : ~Less(v, u)
          /\ queue' = queue (-) SetToBag({u})
          /\ page' = [page EXCEPT ![w] = u]
    /\ pc' = [pc EXCEPT ![w] = "get"]
    /\ UNCHANGED <<config, web, work, lastRange, www, domains, known, waiter, starts, finishes, events,
                   call, resp, hrefs, loadi, spawni, crashed, enqueued, fetched>>

\* lines 147-151
Get(w) ==
    /\ pc[w] = "get"
    /\ fetched' = fetched (+) SetToBag({String(page[w])})
    /\ LET r == Fetch(page[w])
       IN  IF r.err
           THEN /\ events' = report_error(page[w], 0, TransportErr)
                /\ pc' = [pc EXCEPT ![w] = "wg_done"]
                /\ UNCHANGED resp
           ELSE /\ resp' = [resp EXCEPT ![w] = [err |-> FALSE, status |-> r.status,
                                                ctype |-> r.ctype, body |-> r.body,
                                                read |-> FALSE]]
                /\ pc' = [pc EXCEPT ![w] = "read"]
                /\ UNCHANGED events
    /\ lastRange' = Ranged
    /\ work' = Worked(w)
    /\ UNCHANGED <<config, web, www, domains, known, queue, waiter, starts, finishes,
                   call, page, hrefs, loadi, spawni, crashed, enqueued>>

\* lines 153-168: read the whole body (body, err := ioutil.ReadAll(resp.Body));
\* then the status, the Content-Type, the matches of the pattern
CheckResponse(w) ==
    /\ pc[w] = "read"
    /\ resp' = [resp EXCEPT ![w].read = TRUE]
    /\ IF status_not_200(resp[w])
       THEN /\ events' = report_error(page[w], resp[w].status, NilReason)
            /\ pc' = [pc EXCEPT ![w] = "wg_done"]
            /\ UNCHANGED hrefs
       ELSE IF ~is_text_html(resp[w])
       THEN /\ events' = report_ignored(page[w], 0, ContentTypePrefix \o resp[w].ctype)
            /\ pc' = [pc EXCEPT ![w] = "wg_done"]
            /\ UNCHANGED hrefs
       ELSE /\ hrefs' = [hrefs EXCEPT ![w] = resp[w].body]
            /\ pc' = [pc EXCEPT ![w] = "links"]
            /\ UNCHANGED events
    /\ lastRange' = Ranged
    /\ work' = Worked(w)
    /\ UNCHANGED <<config, web, www, domains, known, queue, waiter, starts, finishes,
                   call, page, loadi, spawni, crashed, enqueued, fetched>>

\* lines 169-182: one iteration of the loop, up to the call of enqueue
NextLink(w) ==
    /\ pc[w] = "links"
    /\ hrefs[w] # <<>>
    /\ LET link == Head(hrefs[w])
           u    == Parse(link)
       IN  IF HasPrefix(link, Hash) \/ ~u.ok
           THEN /\ call' = [call EXCEPT ![w] = NoCall]
                /\ UNCHANGED <<pc, work>>
           ELSE /\ call' = [call EXCEPT ![w] = NewCall(u.url)]
                /\ pc' = [pc EXCEPT ![w] = "enq_check"]
                /\ work' = [work EXCEPT ![w].calls = @ + 1]
    /\ hrefs' = [hrefs EXCEPT ![w] = Tail(@)]
    /\ UNCHANGED <<config, web, lastRange, www, domains, known, queue, waiter, starts, finishes,
                   events, page, resp, loadi, spawni, crashed, enqueued, fetched>>

\* line 184, after the loop
Success(w) ==
    /\ pc[w] = "links"
    /\ hrefs[w] = <<>>
    /\ events' = report_success(page[w], resp[w].status)
    /\ call' = [call EXCEPT ![w] = NoCall]
    /\ pc' = [pc EXCEPT ![w] = "wg_done"]
    /\ lastRange' = Ranged
    /\ work' = Worked(w)
    /\ UNCHANGED <<config, web, www, domains, known, queue, waiter, starts, finishes,
                   page, resp, hrefs, loadi, spawni, crashed, enqueued, fetched>>

\* line 132: c.waiter.Done(), then the next iteration of the for loop
WgDone(w) ==
    /\ pc[w] = "wg_done"
    /\ waiter' = waiter_Done
    /\ page' = [page EXCEPT ![w] = NoURL]
    /\ resp' = [resp EXCEPT ![w] = NoResp]
    /\ pc' = [pc EXCEPT ![w] = "dequeue"]
    /\ work' = [work EXCEPT ![w] = NoWork]
    /\ UNCHANGED <<config, web, lastRange, www, domains, known, queue, starts, finishes, events,
                   call, hrefs, loadi, spawni, crashed, enqueued, fetched>>

(***************************************************************************)
(* The program                                                             *)
(***************************************************************************)
\* every step but the runtime's fatal error
Step ==
    \/ LoadConfig
    \/ LoadDomain
    \/ LoadReturn
    \/ RunStart
    \/ Spawn
    \/ Wait
    \/ Finish
    \/ \E t \in Threads : EnqCheck(t) \/ EnqInsert(t) \/ EnqAdmit(t) \/ EnqPush(t)
    \/ \E w \in Workers : Dequeue(w) \/ Get(w) \/ CheckResponse(w)
    \/ \E w \in Workers : NextLink(w) \/ Success(w) \/ WgDone(w)

Next ==
    \/ LoadConfig
    \/ LoadDomain
    \/ LoadReturn
    \/ RunStart
    \/ Spawn
    \/ Wait
    \/ Finish
    \/ \E t \in Threads : EnqCheck(t)
    \/ \E t \in Threads : EnqInsert(t)
    \/ \E t \in Threads : EnqAdmit(t)
    \/ \E t \in Threads : EnqPush(t)
    \/ \E w \in Workers : Dequeue(w)
    \/ \E w \in Workers : Get(w)
    \/ \E w \in Workers : CheckResponse(w)
    \/ \E w \in Workers : NextLink(w)
    \/ \E w \in Workers : Success(w)
    \/ \E w \in Workers : WgDone(w)
    \/ MapFault

Spec == Init /\ [][Next]_vars

\* the goroutines are scheduled fairly and every fetch completes; nothing
\* obliges the runtime to detect a race
FairSpec == Spec /\ WF_vars(Step)

(***************************************************************************)
(* Properties                                                              *)
(***************************************************************************)
\* the outcome events (success, ignored, error) recorded for the URL k, as
\* the first reporter received them
OutcomesOf(k) ==
    LET es == {e \in BagToSet(events[1]) : e.url = k}
    IN  BagCardinality([e \in es |-> CopiesIn(e, events[1])])

\* thread t has returned from a call of enqueue and not yet gone on
Returned(t) == call[t].active /\ pc[t] = Ret(t)

\* thread t is inside a call of enqueue, past the read of the known map
PastCheck(t) == call[t].active /\ pc[t] \in {"enq_insert", "enq_admit", "enq_push"}

\* Run has returned
RunReturned == pc[Main] = "done"

\* C1: at most one fetch task is ever enqueued for a dedup key, and no two
\* workers are past the known-map check of the same key having both found it
\* absent.
AtMostOneTaskPerKey ==
    /\ \A k \in BagToSet(enqueued) : CopiesIn(k, enqueued) <= 1
    /\ \A t1, t2 \in Workers :
          (t1 # t2 /\ PastCheck(t1) /\ PastCheck(t2))
              => String(call[t1].link) # String(call[t2].link)

\* C2: a URL in the known-set never has more than one outcome event, and has
\* exactly one when Run has returned.
ExactlyOneOutcomePerURL ==
    /\ \A k \in known : OutcomesOf(k) <= 1
    /\ RunReturned => \A k \in known : OutcomesOf(k) = 1

\* C3: under fair scheduling, with fetches that complete, Run eventually
\* returns.
RunEventuallyReturns == <>RunReturned

\* Run returns unless the runtime stops the process (what remains of C3 when
\* the unsynchronized map is left aside)
RunReturnsUnlessFault == <>(RunReturned \/ crashed)

\* C4: once the wait of Run is over, the queue is empty, every worker is
\* blocked in Dequeue, and no task is enqueued any more.
RunNeverReturnsEarly ==
    /\ [](pc[Main] \in {"finish", "done"}
            => /\ queue = EmptyBag
               /\ \A w \in Workers : pc[w] = "dequeue")
    /\ [][pc[Main] \in {"finish", "done"}
            => queue' = queue /\ enqueued' = enqueued /\ waiter' = waiter]_vars

\* C4 witness: Run has returned from a crawl that fetched several pages
RunReturnedAfterCrawl == RunReturned /\ BagCardinality(fetched) >= 2

\* what a call of enqueue has produced: the tasks it pushed and the
\* "ignored" events it reported
TasksOf(t) == BagCardinality(call[t].tasks)

IgnoredOf(t) ==
    LET es == {e \in BagToSet(call[t].reports) : e.kind = "ignored"}
    IN  BagCardinality([e \in es |-> CopiesIn(e, call[t].reports)])

\* C5, as claimed: every call of enqueue, whatever the known-set holds, ends
\* having pushed one task or reported one "ignored", and not both.
EveryCallOneOutcome ==
    \A t \in Threads : Returned(t) => TasksOf(t) + IgnoredOf(t) = 1

\* C5, amended: a call that found its key absent from the known-set ends
\* having pushed exactly one task or reported exactly one "ignored", never
\* both; a call that found its key present pushes and reports nothing.
AbsentKeyOneOutcomeKnownKeyNone ==
    \A t \in Threads :
        /\ call[t].active => TasksOf(t) + IgnoredOf(t) <= 1
        /\ Returned(t) =>
              /\ BagCardinality(call[t].reports) = IgnoredOf(t)
              /\ IF call[t].known
                 THEN TasksOf(t) = 0 /\ IgnoredOf(t) = 0 /\ call[t].adds = 0
                 ELSE TasksOf(t) + IgnoredOf(t) = 1

\* C5 witness: a worker's call returned as a no-op on a known key after
\* other calls pushed tasks and reported ignored links
NoOpOnKnownKey ==
    \E w \in Workers :
        /\ Returned(w)
        /\ call[w].known
        /\ enqueued # EmptyBag
        /\ \E e \in BagToSet(events[1]) : e.kind = "ignored"

\* C6: a call that found its key absent pushes a task for the link iff the
\* scheme is "http" and the canonical host is allowed, and then adds one to
\* the tracker and reports nothing; otherwise it pushes nothing, leaves the
\* tracker alone and reports one "ignored" with status 0 and the reason
\* "wrong scheme: <scheme>" or "external domain".
AdmissionPolicy ==
    \A t \in Threads :
        (Returned(t) /\ ~call[t].known) =>
            LET link == call[t].link
                ok   == link.scheme = Http /\ link.host \in domains
                why  == IF link.scheme # Http THEN WrongScheme \o link.scheme
                        ELSE ExternalDomain
            IN  IF ok
                THEN /\ call[t].tasks = SetToBag({link})
                     /\ call[t].adds = 1
                     /\ call[t].reports = EmptyBag
                ELSE /\ call[t].tasks = EmptyBag
                     /\ call[t].adds = 0
                     /\ call[t].reports =
                           SetToBag({[kind |-> "ignored", url |-> String(link),
                                      status |-> 0, reason |-> why]})

\* C6 witness: a worker's call has returned from rejecting an https link of
\* an allowed host with the reason "wrong scheme: https"
WrongSchemeRejected ==
    \E w \in Workers :
        /\ Returned(w)
        /\ call[w].link.scheme = Https
        /\ call[w].link.host \in domains
        /\ \E e \in BagToSet(call[w].reports) : e.reason = WrongScheme \o Https

\* C7: normalize_host is idempotent on every configured domain Load has
\* canonicalized.
NormalizeHostIdempotent ==
    pc[Main] # "load_cfg" =>
        \A i \in 1..(loadi - 1) :
            LET h == config.domains[i]
            IN  normalize_host(normalize_host(h)) = normalize_host(h)

\* the seed URL Load synthesizes for the configured domain d
SeedOf(d) == HttpColonSlashSlash \o normalize_host(d) \o Slash

\* C8: when Load has returned, every configured domain's canonical form is
\* allowed, and its seed URL is in the known-set, was enqueued exactly once
\* and was not reported as ignored.
SeedsAdmitted ==
    pc[Main] = "run" =>
        \A i \in 1..Len(config.domains) :
            LET d == config.domains[i]
            IN  /\ normalize_host(d) \in domains
                /\ SeedOf(d) \in known
                /\ CopiesIn(SeedOf(d), enqueued) = 1
                /\ \A e \in BagToSet(events[1]) : e.kind = "ignored" => e.url # SeedOf(d)

\* the fragments and paths a link is varied over
Fragments == {<<>>, <<"f">>, <<"t">>}

\* the dedup key enqueue computes for the link as thread t passes it
KeyOf(link, t) == String(enqueue_link(link, t # Main, IF t = Main THEN NoURL ELSE page[t]))

\* C9: the key of a call is the key of the same link with any other or no
\* fragment, and holds no "#"; an absolute URL with an empty path and the one
\* with path "/" have one key; when a call has returned the key is in the
\* known-set, and a call that finds it there does nothing.
KeyIgnoresFragment ==
    /\ \A k \in known : IndexOf(k, "#") = 0
    /\ \A t \in Threads :
          (PastCheck(t) \/ Returned(t)) =>
              LET raw == call[t].raw
                  key == String(call[t].link)
              IN  /\ \A f \in Fragments : KeyOf([raw EXCEPT !.fragment = f], t) = key
                  /\ (raw.host # <<>> /\ raw.path \in {<<>>, Slash}) =>
                        \A p \in {<<>>, Slash} : KeyOf([raw EXCEPT !.path = p], t) = key
                  /\ Returned(t) => key \in known
                  /\ (Returned(t) /\ call[t].known) =>
                        call[t].tasks = EmptyBag /\ call[t].reports = EmptyBag

\* C9 witness: a link with a fragment was a no-op because the same URL
\* without the fragment had been admitted
FragmentLinkWasNoOp ==
    \E w \in Workers :
        /\ Returned(w)
        /\ call[w].raw.fragment # <<>>
        /\ call[w].known
        /\ String([call[w].link EXCEPT !.fragment = call[w].raw.fragment]) \notin known

\* C10: every reporter's Start and Finish are called at most once, and once
\* each when Run has returned; Start precedes every fetch; Finish comes only
\* with the tracker at zero; after a Finish no event is delivered.
StartOnceFinishOnce ==
    /\ [](\A r \in 1..Len(Reporters) :
            /\ starts[r] <= 1
            /\ finishes[r] <= 1
            /\ fetched # EmptyBag => starts[r] = 1
            /\ finishes[r] = 1 => waiter = 0 /\ starts[r] = 1
            /\ RunReturned => starts[r] = 1 /\ finishes[r] = 1)
    /\ [][(\E r \in 1..Len(Reporters) : finishes[r] > 0) => events' = events]_vars

\* C10 witness: Run has returned, every reporter was started and finished
\* once, and events were delivered in between
FinishedAfterEvents ==
    /\ RunReturned
    /\ \A r \in 1..Len(Reporters) : starts[r] = 1 /\ finishes[r] = 1
    /\ BagCardinality(events[1]) >= 2

\* the response of worker w's task was obtained and has a status other than 200
ErrorStatus(w) == resp[w] # NoResp /\ resp[w].status # 200

\* C11: a task whose response has a status other than 200 (301 and 404
\* alike) ends with one "error" event carrying that status as the only thing
\* it reported and with no call of enqueue; the step that reports it leaves
\* the known-set and the queue as they are.
ErrorStatusOnlyError ==
    /\ [](\A w \in Workers :
            (pc[w] = "wg_done" /\ ErrorStatus(w)) =>
                /\ work[w].reports =
                      SetToBag({[kind |-> "error", url |-> String(page[w]),
                                 status |-> resp[w].status, reason |-> NilReason]})
                /\ work[w].calls = 0)
    /\ [][\A w \in Workers :
            (pc[w] = "read" /\ ErrorStatus(w) /\ pc'[w] # "read") =>
                /\ known' = known
                /\ queue' = queue
                /\ enqueued' = enqueued
                /\ pc'[w] \in {"wg_done", "fatal"}]_vars

\* C11 witness: a worker has finished a task answered with a 301 redirect
RedirectReportedAsError ==
    \E w \in Workers :
        /\ pc[w] = "wg_done"
        /\ resp[w].status = 301
        /\ \E e \in BagToSet(work[w].reports) : e.kind = "error" /\ e.status = 301

\* the response of worker w's task has status 200 and a Content-Type that
\* does not start with "text/html"
NotHtml(w) == resp[w] # NoResp /\ resp[w].status = 200 /\ ~HasPrefix(resp[w].ctype, TextHtml)

\* C12: a task whose response has status 200 and a Content-Type not starting
\* with "text/html" ends with one "ignored" event as the only thing it
\* reported and with no call of enqueue; the step that reports it leaves the
\* known-set and the queue as they are.
NonHtmlOnlyIgnored ==
    /\ [](\A w \in Workers :
            (pc[w] = "wg_done" /\ NotHtml(w)) =>
                /\ work[w].reports =
                      SetToBag({[kind |-> "ignored", url |-> String(page[w]),
                                 status |-> 0,
                                 reason |-> ContentTypePrefix \o resp[w].ctype]})
                /\ work[w].calls = 0)
    /\ [][\A w \in Workers :
            (pc[w] = "read" /\ NotHtml(w) /\ pc'[w] # "read") =>
                /\ known' = known
                /\ queue' = queue
                /\ enqueued' = enqueued
                /\ pc'[w] \in {"wg_done", "fatal"}]_vars

\* C12 witness: a worker has finished a task answered with text/plain
PlainTextIgnored ==
    \E w \in Workers :
        /\ pc[w] = "wg_done"
        /\ resp[w].status = 200
        /\ resp[w].ctype = TextPlain
        /\ \E e \in BagToSet(work[w].reports) : e.kind = "ignored"

InFlight ==
    {w \in Workers : pc[w] \in {"get", "read", "links", "enq_check", "enq_insert",
                                "enq_admit", "enq_push", "wg_done"}}

\* the threads between c.waiter.Add(1) (line 103) and c.queue.Enqueue (line 104)
Admitting == {t \in Threads : pc[t] = "enq_push"}

\* C14, as claimed: the counter is the number of tasks in the queue plus the
\* number of tasks dequeued and not yet Done.
CounterIsPendingPlusInFlight ==
    ~crashed => waiter = BagCardinality(queue) + Cardinality(InFlight)

\* C14, amended: the counter is the number of tasks in the queue, plus the
\* tasks dequeued and not yet Done, plus the tasks counted and not yet
\* pushed; it is never negative; it goes up by one exactly in the steps that
\* admit a task, each followed by one push, and down by one exactly in the
\* steps that end the processing of a task.
CounterCoversAdmittedTasks ==
    /\ [](~crashed => /\ waiter = BagCardinality(queue) + Cardinality(InFlight)
                                  + Cardinality(Admitting)
                      /\ BagCardinality(enqueued) = BagCardinality(queue)
                            + BagCardinality(fetched)
                            + Cardinality({w \in Workers : pc[w] = "get"}))
    /\ [](waiter >= 0)
    /\ [][/\ waiter' \in {waiter - 1, waiter, waiter + 1}
          /\ waiter' = waiter + 1 <=>
                \E t \in Threads : pc[t] = "enq_admit" /\ pc'[t] = "enq_push"
          /\ waiter' = waiter - 1 <=>
                \E w \in Workers : pc[w] = "wg_done" /\ pc'[w] = "dequeue"
          /\ BagCardinality(enqueued') - BagCardinality(enqueued) =
                Cardinality({t \in Threads : pc[t] = "enq_push" /\ pc'[t] # "enq_push"
                                               /\ ~crashed'})]_vars

\* C14 witness: tasks are pending in the queue while a worker processes one
\* and another task is counted and not yet pushed
CountedBeforePushed ==
    /\ ~crashed
    /\ queue # EmptyBag
    /\ \E w \in Workers : pc[w] \in {"get", "read", "links", "wg_done"}
    /\ Admitting # {}
    /\ waiter >= 3

\* the events worker w has reported for the URL of the task it processes
OwnReports(w) ==
    LET es == {e \in BagToSet(work[w].reports) : e.url = String(page[w])}
    IN  BagCardinality([e \in es |-> CopiesIn(e, work[w].reports)])

\* C15: a worker that has ended the processing of a task, whatever the
\* outcome, has reported exactly one event for the task's URL (and none
\* before the outcome is known); its next step calls Done, which takes one
\* from the tracker, and leaves it at the next Dequeue; the tracker goes
\* down in no other step.
OneReportOneDonePerTask ==
    /\ [](\A w \in Workers :
            /\ pc[w] = "wg_done" => OwnReports(w) = 1
            /\ pc[w] \in {"get", "read", "links", "enq_check", "enq_insert",
                          "enq_admit", "enq_push"} => OwnReports(w) = 0)
    /\ [][\A w \in Workers :
            (pc[w] = "wg_done" /\ pc'[w] \notin {"wg_done", "fatal"}) =>
                pc'[w] = "dequeue" /\ waiter' = waiter - 1]_vars
    /\ [][waiter' < waiter =>
            \E w \in Workers : pc[w] = "wg_done" /\ pc'[w] = "dequeue"]_vars

\* C15 witness: a worker is back at Dequeue after a task whose fetch failed
\* was reported as an error with status 0
WorkerGoesOnAfterFailure ==
    \E w \in Workers :
        /\ pc[w] = "dequeue"
        /\ waiter = 0
        /\ \E e \in BagToSet(events[1]) : e.kind = "error" /\ e.reason = TransportErr

\* C16: the body of a response with a status other than 200 is never read.
BodyUnreadOnErrorStatus ==
    \A w \in Workers : (resp[w] # NoResp /\ resp[w].status # 200) => ~resp[w].read

\* the workers Run has started
Started == {w \in Workers : pc[w] \notin {"idle", "fatal"}}

\* C17: when the loop of Run(PoolSize) is over, PoolSize + 1 workers have
\* been started, and never more; at most PoolSize + 1 tasks are in
\* process at a time.
PoolSizePlusOneWorkers ==
    /\ spawni <= PoolSize + 1
    /\ Cardinality(InFlight) <= PoolSize + 1
    /\ ~crashed =>
          /\ Cardinality(Started) = spawni
          /\ pc[Main] \in {"wait", "finish", "done"} => Cardinality(Started) = PoolSize + 1

\* C17 witness: PoolSize + 1 tasks are in process at the same time
AllWorkersInFlight ==
    /\ Cardinality(InFlight) = PoolSize + 1
    /\ \A w1, w2 \in InFlight : w1 # w2 => page[w1] # page[w2]

(***************************************************************************)
(* The crawl as one thread would do it, one task after the other, in an    *)
(* arbitrary order: the result the runs of the program are compared with.  *)
(***************************************************************************)
\* the allow-list of the config
RefAllowed == {normalize_host(config.domains[i]) : i \in 1..Len(config.domains)}

RefEmpty == [known |-> {}, todo |-> {}, fetched |-> {}, events |-> {}]

\* one link met with the given base: admitted, ignored, or known already
RefEnqueue(st, raw, hasBase, base) ==
    LET link == enqueue_link(raw, hasBase, base)
        key  == String(link)
    IN  IF key \in st.known THEN st
        ELSE IF link.scheme = Http /\ link.host \in RefAllowed
        THEN [st EXCEPT !.known = @ \cup {key}, !.todo = @ \cup {link}]
        ELSE [st EXCEPT !.known = @ \cup {key},
                        !.events = @ \cup {Event("ignored", link, 0,
                                                 IF link.scheme = Http THEN ExternalDomain
                                                 ELSE WrongScheme \o link.scheme)}]

\* the seeds of the config, from the i-th on
RECURSIVE RefSeeds(_, _)
RefSeeds(st, i) ==
    IF i > Len(config.domains) THEN st
    ELSE LET u == Parse(HttpColonSlashSlash \o normalize_host(config.domains[i]) \o Slash)
         IN  RefSeeds(RefEnqueue(st, u.url, FALSE, NoURL), i + 1)

\* the hrefs of a page, in order
RECURSIVE RefLinks(_, _, _)
RefLinks(st, base, hs) ==
    IF hs = <<>> THEN st
    ELSE LET u == Parse(Head(hs))
         IN  IF HasPrefix(Head(hs), Hash) \/ ~u.ok
             THEN RefLinks(st, base, Tail(hs))
             ELSE RefLinks(RefEnqueue(st, u.url, TRUE, base), base, Tail(hs))

\* one task
RefPage(st, p) ==
    LET r  == Fetch(p)
        s1 == [st EXCEPT !.fetched = @ \cup {String(p)}]
    IN  IF r.err
        THEN [s1 EXCEPT !.events = @ \cup {Event("error", p, 0, TransportErr)}]
        ELSE IF r.status # 200
        THEN [s1 EXCEPT !.events = @ \cup {Event("error", p, r.status, NilReason)}]
        ELSE IF ~HasPrefix(r.ctype, TextHtml)
        THEN [s1 EXCEPT !.events = @ \cup {Event("ignored", p, 0, ContentTypePrefix \o r.ctype)}]
        ELSE [RefLinks(s1, p, r.body) EXCEPT
                 !.events = @ \cup {Event("success", p, r.status, NilReason)}]

\* all tasks, until none is left
RECURSIVE RefCrawl(_)
RefCrawl(st) ==
    IF st.todo = {} THEN st
    ELSE LET p == CHOOSE q \in st.todo : TRUE
         IN  RefCrawl(RefPage([st EXCEPT !.todo = @ \ {p}], p))

RefResult == RefCrawl(RefSeeds(RefEmpty, 1))

\* C18: when Run has returned, the set of the URLs fetched and the set of
\* the events reported are those of the crawl done by one thread, whatever
\* the order of the Dequeues and the interleaving of the workers were.
ResultIndependentOfSchedule ==
    RunReturned =>
        /\ BagToSet(fetched) = RefResult.fetched
        /\ BagToSet(events[1]) = RefResult.events

\* C18 witness: Run has returned from a crawl that fetched two pages with
\* success and ignored two links
CompleteRunAfterConcurrentCrawl ==
    /\ RunReturned
    /\ Cardinality(BagToSet(fetched)) >= 2
    /\ Cardinality({e \in BagToSet(events[1]) : e.kind = "ignored"}) >= 2
    /\ Cardinality({e \in BagToSet(events[1]) : e.kind = "success"}) >= 2

\* Run has been called and has not returned, or has returned
RunCalled == pc[Main] \in {"run", "spawn", "wait", "finish", "done"}

\* C19: the allow-list changes only in a step of Load, taken while no worker
\* has been started; from the call of Run on it is the allow-list of the
\* config and no step changes it.
AllowListWrittenOnlyByLoad ==
    /\ [][domains' # domains =>
            /\ pc[Main] = "load"
            /\ \A w \in Workers : pc[w] = "idle"]_vars
    /\ [][RunCalled => domains' = domains]_vars
    /\ [](RunCalled => domains = RefAllowed)

\* C19 witness: Run has returned with the allow-list of two hosts that Load
\* wrote, after the enqueue calls of workers admitted links by it
AllowListKeptThroughRun ==
    /\ RunReturned
    /\ Cardinality(domains) = 2
    /\ Cardinality(BagToSet(enqueued)) >= 3

\* C20: from the call of Run on, every step that adds to the tracker is
\* taken by a worker inside process_url with the tracker at 1 or more; while
\* a worker holds a task the tracker is not zero; when the wait of Run is
\* over no worker holds a task.
IncrementsOnlyWhileCounted ==
    /\ [][(RunCalled /\ waiter' > waiter) =>
            /\ waiter >= 1
            /\ \E w \in Workers : pc[w] = "enq_admit" /\ pc'[w] = "enq_push"]_vars
    /\ [](\A w \in Workers : w \in InFlight => waiter >= 1)
    /\ [](pc[Main] \in {"finish", "done"} => InFlight = {})

\* C20 witness: during Run a worker has counted a link of its page, its own
\* task being counted still
WorkerCountedLinkDuringRun ==
    /\ RunCalled
    /\ \E w \in Workers : pc[w] = "enq_push" /\ hrefs[w] # <<>>
    /\ waiter >= 2

====
